---- MODULE Spec2Model ----
(***************************************************************************)
(* A model of SingleLinkedList<Type> (single-linked-list.h).               *)
(*                                                                         *)
(* Memory is modelled explicitly.  A pointer is an integer: 0 is nullptr,  *)
(* 1..MaxNodes are the heap cells operator new can hand out, and -l is the *)
(* address of the sentinel head_ embedded in the list object l.            *)
(* next_node is the Node::next_node field of every cell, the sentinels     *)
(* included, so head_.next_node of list l is next_node[-l].                *)
(* size_ is the size_t member; its arithmetic is modulo SizeModulus.       *)
(***************************************************************************)
EXTENDS Integers, Sequences, FiniteSets, TLC

\* ---------------------------------------------------------------- bounds
MaxNodes == 3          \* heap cells available to operator new
SizeModulus == 4       \* size_t arithmetic is modulo this (2^64 in the build)
MaxLen == 2            \* longest initializer_list handed to the constructor

Values == {1, 2}       \* the element type: two distinguishable values
ListIds == {1, 2}      \* the list objects a and b of the program
Tmp == 3               \* the local `tmp` of operator=
Tmp1 == 4              \* the local `tmp1` of the two converting constructors
AllLists == ListIds \cup {Tmp, Tmp1}

NULL == 0
Nodes == 1..MaxNodes
NoValue == 0           \* content of a cell that holds no live Node

VARIABLES value, next_node, allocated, size_, live, op, copied, double_free

vars == <<value, next_node, allocated, size_, live, op, copied, double_free>>

\* ------------------------------------------------------------ the store
\* The whole memory as one record, so that operations compose.
\* thrown: an exception is propagating out of the call; ret: the call's result.
\* double_free: some delete was applied to a cell that held no live Node.
Cur ==
    [value |-> value, next_node |-> next_node, allocated |-> allocated,
     size_ |-> size_, live |-> live, thrown |-> FALSE, ret |-> 0,
     double_free |-> double_free]

Store(s) ==
    /\ value' = s.value
    /\ next_node' = s.next_node
    /\ allocated' = s.allocated
    /\ size_' = s.size_
    /\ live' = s.live
    /\ double_free' = s.double_free

\* &l.head_ : the address of the sentinel of list l
head_(l) == 0 - l

Heads == {head_(l) : l \in AllLists}

\* ++size_ and --size_ on a size_t
Inc(n) == (n + 1) % SizeModulus
Dec(n) == (n + SizeModulus - 1) % SizeModulus

\* operator new: the lowest free cell, or NULL when std::bad_alloc is thrown
FreeNodes(s) == Nodes \ s.allocated
NewCell(s) ==
    IF FreeNodes(s) = {} THEN NULL
    ELSE CHOOSE n \in FreeNodes(s) : \A m \in FreeNodes(s) : n <= m

\* new Node(val, next) placed in cell n
NewNode(s, n, val, next) ==
    [s EXCEPT !.value[n] = val, !.next_node[n] = next,
              !.allocated = @ \cup {n}]

\* delete ptr
Delete(s, ptr) ==
    [s EXCEPT !.value[ptr] = NoValue, !.next_node[ptr] = NULL,
              !.allocated = @ \ {ptr},
              !.double_free = @ \/ ptr \notin s.allocated]

\* ------------------------------------------------------------ traversal
\* The cells reached from p by operator++ until nullptr (BasicIterator)
RECURSIVE ChainFrom(_, _, _)
ChainFrom(s, p, fuel) ==
    IF p = NULL \/ fuel = 0 THEN <<>>
    ELSE <<p>> \o ChainFrom(s, s.next_node[p], fuel - 1)

\* begin() : Iterator(head_.next_node)
begin(s, l) == s.next_node[head_(l)]

\* end() : Iterator(nullptr)
end == NULL

\* the cells of list l, in order from begin() to end()
Chain(s, l) == ChainFrom(s, begin(s, l), MaxNodes + 1)

\* the elements of list l, in order (operator* at each position)
Traverse(s, l) == [i \in 1..Len(Chain(s, l)) |-> s.value[Chain(s, l)[i]]]

Range(f) == {f[i] : i \in DOMAIN f}

\* the valid positions of list l for InsertAfter: before_begin() and elements
Positions(s, l) == {head_(l)} \cup Range(Chain(s, l))

GetSize(s, l) == s.size_[l]

IsEmpty(s, l) == s.size_[l] = 0

\* ------------------------------------------------------------ operations
\* an exception leaves the function
Throw(s) == [s EXCEPT !.thrown = TRUE]

\* SingleLinkedList() : head_(), size_(0) {}
DefaultConstruct(s, l) ==
    [s EXCEPT !.next_node[head_(l)] = NULL, !.size_[l] = 0,
              !.live = @ \cup {l}]

\* variant of PushFront that counts the element before allocating its node
PushFront_countFirst(s, l, val, avail) ==
    LET n == NewCell(s)
        s0 == [s EXCEPT !.size_[l] = Inc(@)]
    IN  IF avail = 0 \/ n = NULL THEN Throw(s0)
        ELSE LET s1 == NewNode(s0, n, val, s0.next_node[head_(l)])
             IN  [s1 EXCEPT !.next_node[head_(l)] = n]

\* void PushFront(const Type& value); avail = 0 makes operator new throw
PushFront(s, l, val, avail) ==
    LET n == NewCell(s)
    IN  IF avail = 0 \/ n = NULL THEN Throw(s)
        ELSE LET s1 == NewNode(s, n, val, s.next_node[head_(l)])
                 s2 == [s1 EXCEPT !.next_node[head_(l)] = n]
             IN  [s2 EXCEPT !.size_[l] = Inc(@)]

\* Iterator InsertAfter(ConstIterator pos, const Type& value)
InsertAfter(s, l, pos, val, avail) ==
    LET node_ptr == NewCell(s)
    IN  IF avail = 0 \/ node_ptr = NULL THEN Throw(s)
        ELSE LET s1 == NewNode(s, node_ptr, val, s.next_node[pos])
                 s2 == [s1 EXCEPT !.next_node[pos] = node_ptr]
             IN  [s2 EXCEPT !.size_[l] = Inc(@), !.ret = node_ptr]

\* variant of PopFront that forgets --size_
PopFront_noCount(s, l) ==
    LET ptr == s.next_node[head_(l)]
        s1 == [s EXCEPT !.next_node[head_(l)] = s.next_node[ptr]]
    IN  Delete(s1, ptr)

\* void PopFront() noexcept
PopFront(s, l) ==
    LET ptr == s.next_node[head_(l)]
        s1 == [s EXCEPT !.next_node[head_(l)] = s.next_node[ptr]]
        s2 == Delete(s1, ptr)
    IN  [s2 EXCEPT !.size_[l] = Dec(@)]

\* variant of EraseAfter that unlinks the node without deleting it
EraseAfter_noDelete(s, l, pos) ==
    LET ptr == s.next_node[pos]
        s1 == [s EXCEPT !.next_node[pos] = s.next_node[ptr]]
    IN  [s1 EXCEPT !.ret = s1.next_node[pos]]

\* Iterator EraseAfter(ConstIterator pos) noexcept
\* Line 245 reads `--size;`: the name is not the member size_, so whatever
\* object the build binds it to, this->size_ is left as it was.
EraseAfter(s, l, pos) ==
    LET ptr == s.next_node[pos]
        s1 == [s EXCEPT !.next_node[pos] = s.next_node[ptr]]
        s2 == Delete(s1, ptr)
    IN  [s2 EXCEPT !.ret = s2.next_node[pos]]

\* void Clear() noexcept : the while loop
RECURSIVE Clear(_, _)
Clear(s, l) ==
    IF s.next_node[head_(l)] = NULL THEN s
    ELSE LET first == s.next_node[head_(l)]
             s1 == [s EXCEPT !.next_node[head_(l)] = s.next_node[first]]
             s2 == Delete(s1, first)
         IN  Clear([s2 EXCEPT !.size_[l] = Dec(@)], l)

\* variant of the destructor that releases nothing (the implicit destructor)
Destroy_noClear(s, l) ==
    [s EXCEPT !.live = @ \ {l}, !.size_[l] = 0, !.next_node[head_(l)] = NULL]

\* ~SingleLinkedList() : Clear(), after which the object no longer exists
\* (its storage is represented as an empty sentinel and a zero counter)
Destroy(s, l) ==
    LET c == Clear(s, l)
    IN  [c EXCEPT !.live = @ \ {l}, !.size_[l] = 0]

\* variant of swap that exchanges the chains but not the counters
swap_chainsOnly(s, this, other) ==
    IF this # other
    THEN LET head == s.next_node[head_(other)]
             s1 == [s EXCEPT !.next_node[head_(other)] = s.next_node[head_(this)]]
         IN  [s1 EXCEPT !.next_node[head_(this)] = head]
    ELSE s

\* variant of swap that stops after giving its own chain and count to other
swap_oneWay(s, this, other) ==
    IF this # other
    THEN [s EXCEPT !.next_node[head_(other)] = s.next_node[head_(this)],
                   !.size_[other] = s.size_[this]]
    ELSE s

\* void swap(SingleLinkedList& other) noexcept
swap(s, this, other) ==
    IF this # other
    THEN LET head == s.next_node[head_(other)]
             size == s.size_[other]
             s1 == [s EXCEPT !.next_node[head_(other)] = s.next_node[head_(this)],
                             !.size_[other] = s.size_[this]]
         IN  [s1 EXCEPT !.next_node[head_(this)] = head, !.size_[this] = size]
    ELSE s

\* the free function swap(lhs, rhs)
swapFree(s, lhs, rhs) == swap(s, lhs, rhs)

\* variant of the constructor's loop that walks from begin to end
RECURSIVE PushLoop_forward(_, _, _, _)
PushLoop_forward(s, values, i, avail) ==
    IF i = 0 THEN s
    ELSE LET s1 == PushFront(s, Tmp1, values[Len(values) - i + 1], avail)
         IN  IF s1.thrown THEN s1
             ELSE PushLoop_forward(s1, values, i - 1, avail - 1)

\* the loop of the initializer_list constructor: PushFront from rbegin to rend
RECURSIVE PushLoop(_, _, _, _)
PushLoop(s, values, i, avail) ==
    IF i = 0 THEN s
    ELSE LET s1 == PushFront(s, Tmp1, values[i], avail)
         IN  IF s1.thrown THEN s1
             ELSE PushLoop(s1, values, i - 1, avail - 1)

\* SingleLinkedList(std::initializer_list<Type> values)
\* No member initialiser: head_ gets its default (next_node = nullptr) and
\* size_ starts with an indeterminate value, junk, which swap reads.
\* When PushFront throws, tmp1 is destroyed and no object comes to exist.
\* SeqBuild is the store at the end of the loop (line 256), tmp1 still alive.
SeqBuild(s, l, values, avail, junk) ==
    LET s0 == [s EXCEPT !.next_node[head_(l)] = NULL, !.size_[l] = junk]
        s1 == DefaultConstruct(s0, Tmp1)
    IN  PushLoop(s1, values, Len(values), avail)

SeqConstruct(s, l, values, avail, junk) ==
    LET s2 == SeqBuild(s, l, values, avail, junk)
    IN  IF s2.thrown
        THEN [Destroy(s2, Tmp1) EXCEPT !.size_[l] = 0]
        ELSE LET s3 == swap(s2, l, Tmp1)
             IN  [Destroy(s3, Tmp1) EXCEPT !.live = @ \cup {l}]

\* variant of the copy loop that links the source's own nodes (a shallow copy)
CopyLoop_shallow(s, it, tmp1_ptr, avail) ==
    [s EXCEPT !.next_node[tmp1_ptr] = it]

\* the range-for of the copy constructor: one new Node per element of other
RECURSIVE CopyLoop(_, _, _, _)
CopyLoop(s, it, tmp1_ptr, avail) ==
    IF it = NULL THEN s
    ELSE LET n == NewCell(s)
         IN  IF avail = 0 \/ n = NULL THEN Throw(s)
             ELSE LET s1 == NewNode(s, n, s.value[it], NULL)
                      s2 == [s1 EXCEPT !.next_node[tmp1_ptr] = n]
                  IN  CopyLoop(s2, s.next_node[it], n, avail - 1)

\* SingleLinkedList(const SingleLinkedList<Type>& other)
\* CopyBuild is the store at the end of the loop (line 269), tmp1 still alive.
CopyBuild(s, l, other, avail) ==
    LET s0 == [s EXCEPT !.next_node[head_(l)] = NULL, !.size_[l] = 0]
        s1 == DefaultConstruct(s0, Tmp1)
    IN  CopyLoop(s1, begin(s1, other), head_(Tmp1), avail)

\* variant of the copy constructor that builds the chain in *this itself
CopyConstruct_inPlace(s, l, other, avail) ==
    LET s0 == [s EXCEPT !.next_node[head_(l)] = NULL, !.size_[l] = 0]
        s2 == CopyLoop(s0, begin(s0, other), head_(l), avail)
    IN  IF s2.thrown THEN s2
        ELSE [s2 EXCEPT !.live = @ \cup {l}]

CopyConstruct(s, l, other, avail) ==
    LET s2 == CopyBuild(s, l, other, avail)
    IN  IF s2.thrown
        THEN Destroy(s2, Tmp1)
        ELSE LET s3 == swap(s2, Tmp1, l)
             IN  [Destroy(s3, Tmp1) EXCEPT !.live = @ \cup {l}]

\* SingleLinkedList& operator=(const SingleLinkedList& rhs)
CopyAssign(s, l, rhs, avail) ==
    IF l # rhs
    THEN LET s1 == CopyConstruct(s, Tmp, rhs, avail)
         IN  IF s1.thrown THEN s1
             ELSE Destroy(swap(s1, Tmp, l), Tmp)
    ELSE s

\* ---------------------------------------------------------------- actions
\* op records the call that produced the current state
OpRec(name, l, o, s) == [name |-> name, l |-> l, o |-> o, ok |-> ~s.thrown]

\* the calls that mutate one list in place
Mutators == {"PushFront", "PopFront", "InsertAfter", "EraseAfter", "Clear"}

\* copied: one of the two lists was made a copy of the other (copy
\* construction or `b = a`), and both have existed ever since
CopiedAfter(name, l, o, s) ==
    IF name \in {"CopyConstruct", "CopyAssign"} /\ ~s.thrown /\ l # o THEN TRUE
    ELSE IF name = "Destroy" THEN FALSE
    ELSE copied

Do(name, l, o, s) ==
    /\ Store(s)
    /\ op' = OpRec(name, l, o, s)
    /\ copied' = CopiedAfter(name, l, o, s)

Seqs == UNION {[1..n -> Values] : n \in 0..MaxLen}

Init ==
    /\ value = [n \in Nodes |-> NoValue]
    /\ next_node = [p \in Heads \cup Nodes |-> NULL]
    /\ allocated = {}
    /\ size_ = [l \in AllLists |-> 0]
    /\ live = {}
    /\ op = [name |-> "init", l |-> 0, o |-> 0, ok |-> TRUE]
    /\ copied = FALSE
    /\ double_free = FALSE

DefaultConstructStep ==
    \E l \in ListIds \ live :
        Do("DefaultConstruct", l, 0, DefaultConstruct(Cur, l))

SeqConstructStep ==
    \E l \in ListIds \ live, values \in Seqs, junk \in 0..(SizeModulus - 1) :
      \E avail \in 0..Len(values) :
        Do("SeqConstruct", l, 0, SeqConstruct(Cur, l, values, avail, junk))

CopyConstructStep ==
    \E l \in ListIds \ live, other \in live :
      \E avail \in 0..Len(Chain(Cur, other)) :
        Do("CopyConstruct", l, other, CopyConstruct(Cur, l, other, avail))

CopyAssignStep ==
    \E l \in live, rhs \in live :
      \E avail \in 0..Len(Chain(Cur, rhs)) :
        Do("CopyAssign", l, rhs, CopyAssign(Cur, l, rhs, avail))

DestroyStep ==
    \E l \in live : Do("Destroy", l, 0, Destroy(Cur, l))

swapStep ==
    \E l \in live, other \in live : Do("swap", l, other, swap(Cur, l, other))

swapFreeStep ==
    \E lhs \in live, rhs \in live :
        Do("swapFree", lhs, rhs, swapFree(Cur, lhs, rhs))

PushFrontStep ==
    \E l \in live, val \in Values, avail \in 0..1 :
        Do("PushFront", l, 0, PushFront(Cur, l, val, avail))

\* precondition: the list has a first element
PopFrontStep ==
    \E l \in live :
        /\ begin(Cur, l) # end
        /\ Do("PopFront", l, 0, PopFront(Cur, l))

\* precondition: pos is before_begin() or an element of this list
InsertAfterStep ==
    \E l \in live, val \in Values, avail \in 0..1 :
        \E pos \in Positions(Cur, l) :
            Do("InsertAfter", l, 0, InsertAfter(Cur, l, pos, val, avail))

\* precondition: pos is valid and an element follows it
EraseAfterStep ==
    \E l \in live :
        \E pos \in Positions(Cur, l) :
            /\ next_node[pos] # NULL
            /\ Do("EraseAfter", l, 0, EraseAfter(Cur, l, pos))

ClearStep ==
    \E l \in live : Do("Clear", l, 0, Clear(Cur, l))

Next ==
    \/ DefaultConstructStep
    \/ SeqConstructStep
    \/ CopyConstructStep
    \/ CopyAssignStep
    \/ DestroyStep
    \/ swapStep
    \/ swapFreeStep
    \/ PushFrontStep
    \/ PopFrontStep
    \/ InsertAfterStep
    \/ EraseAfterStep
    \/ ClearStep

Spec == Init /\ [][Next]_vars

\* ------------------------------------------------------------ comparisons
\* std::equal(first1, last1, first2, last2) on forward iterators; last is end
RECURSIVE equal(_, _, _)
equal(s, first1, first2) ==
    IF first1 # NULL /\ first2 # NULL
    THEN IF s.value[first1] # s.value[first2] THEN FALSE
         ELSE equal(s, s.next_node[first1], s.next_node[first2])
    ELSE first1 = NULL /\ first2 = NULL

\* std::lexicographical_compare(first1, last1, first2, last2)
RECURSIVE lexicographical_compare(_, _, _)
lexicographical_compare(s, first1, first2) ==
    IF first1 # NULL /\ first2 # NULL
    THEN IF s.value[first1] < s.value[first2] THEN TRUE
         ELSE IF s.value[first2] < s.value[first1] THEN FALSE
         ELSE lexicographical_compare(s, s.next_node[first1], s.next_node[first2])
    ELSE first1 = NULL /\ first2 # NULL

\* variant of operator== that trusts the stored counts before comparing
operator_eq_bySize(s, lhs, rhs) ==
    /\ GetSize(s, lhs) = GetSize(s, rhs)
    /\ equal(s, begin(s, lhs), begin(s, rhs))

\* operator==, operator!=, operator<, operator<=, operator>, operator>=
operator_eq(s, lhs, rhs) == equal(s, begin(s, lhs), begin(s, rhs))
operator_ne(s, lhs, rhs) == ~operator_eq(s, lhs, rhs)
operator_lt(s, lhs, rhs) ==
    lexicographical_compare(s, begin(s, lhs), begin(s, rhs))
operator_le(s, lhs, rhs) == ~operator_lt(s, rhs, lhs)
operator_gt(s, lhs, rhs) == operator_lt(s, rhs, lhs)
operator_ge(s, lhs, rhs) == ~operator_gt(s, rhs, lhs)

\* the comparison named cmp applied to lists lhs and rhs
Compare(cmp, s, lhs, rhs) ==
    CASE cmp = "operator==" -> operator_eq(s, lhs, rhs)
      [] cmp = "operator!=" -> operator_ne(s, lhs, rhs)
      [] cmp = "operator<" -> operator_lt(s, lhs, rhs)
      [] cmp = "operator<=" -> operator_le(s, lhs, rhs)
      [] cmp = "operator>" -> operator_gt(s, lhs, rhs)
      [] cmp = "operator>=" -> operator_ge(s, lhs, rhs)

Comparisons ==
    {"operator==", "operator!=", "operator<", "operator<=", "operator>",
     "operator>="}

\* The comparisons read two lists and change nothing.  They are exercised on
\* their own: two lists a and b holding any two sequences of up to MaxNodes
\* elements each, with the stored count either right or 0 (as a copy has it).
CmpSeqs == UNION {[1..n -> Values] : n \in 0..MaxNodes}
CmpNodes == 1..(2 * MaxNodes)

TwoLists(A, B, sa, sb) ==
    [value |-> [n \in CmpNodes |->
                  IF n <= Len(A) THEN A[n]
                  ELSE IF n <= Len(A) + Len(B) THEN B[n - Len(A)]
                  ELSE NoValue],
     next_node |-> [p \in Heads \cup CmpNodes |->
                  IF p = head_(1) THEN (IF Len(A) > 0 THEN 1 ELSE NULL)
                  ELSE IF p = head_(2)
                       THEN (IF Len(B) > 0 THEN Len(A) + 1 ELSE NULL)
                  ELSE IF p < 0 THEN NULL
                  ELSE IF p < Len(A) THEN p + 1
                  ELSE IF p = Len(A) THEN NULL
                  ELSE IF p < Len(A) + Len(B) THEN p + 1
                  ELSE NULL],
     allocated |-> 1..(Len(A) + Len(B)),
     size_ |-> [l \in AllLists |->
                  IF l = 1 THEN sa ELSE IF l = 2 THEN sb ELSE 0],
     live |-> ListIds]

InitCmp ==
    \E A \in CmpSeqs, B \in CmpSeqs :
      \E sa \in {Len(A) % SizeModulus, 0}, sb \in {Len(B) % SizeModulus, 0} :
        LET s == TwoLists(A, B, sa, sb)
        IN  /\ value = s.value
            /\ next_node = s.next_node
            /\ allocated = s.allocated
            /\ size_ = s.size_
            /\ live = s.live
            /\ op = [name |-> "init", l |-> 0, o |-> 0, ok |-> TRUE,
                     result |-> FALSE]
            /\ copied = FALSE
            /\ double_free = FALSE

CompareStep ==
    \E cmp \in Comparisons, lhs \in live, rhs \in live :
        /\ op' = [name |-> cmp, l |-> lhs, o |-> rhs, ok |-> TRUE,
                  result |-> Compare(cmp, Cur, lhs, rhs)]
        /\ UNCHANGED <<value, next_node, allocated, size_, live, copied,
                       double_free>>

NextCmp == CompareStep

SpecCmp == InitCmp /\ [][NextCmp]_vars

\* ------------------------------------------------------------ properties
\* C1: for every live list, GetSize() equals the number of nodes reachable
\* from head_.next_node.
C1_SizeEqualsChainLength ==
    \A l \in live : GetSize(Cur, l) = Len(Chain(Cur, l))

\* C2: a successful copy construction or copy assignment of list o into list
\* l leaves l with o's elements in order and o's GetSize(), and leaves o as
\* it was; self-assignment changes nothing.
C2_CopyIsDeepDuplicate ==
    [][(op'.name \in {"CopyConstruct", "CopyAssign"} /\ op'.ok) =>
          /\ Traverse(Cur', op'.l) = Traverse(Cur, op'.o)
          /\ GetSize(Cur', op'.l) = GetSize(Cur, op'.o)
          /\ Traverse(Cur', op'.o) = Traverse(Cur, op'.o)
          /\ GetSize(Cur', op'.o) = GetSize(Cur, op'.o)
          /\ (op'.l # op'.o =>
                Range(Chain(Cur', op'.l)) \cap Range(Chain(Cur', op'.o)) = {})]_vars

\* C3: every EraseAfter whose precondition holds leaves GetSize() one less
\* than it was.
C3_EraseAfterDecrementsSize ==
    [][op'.name = "EraseAfter" =>
          GetSize(Cur', op'.l) = GetSize(Cur, op'.l) - 1]_vars

\* C4: Clear() releases every node of the list and leaves it empty:
\* head_.next_node is null, IsEmpty() is true, GetSize() is 0, and a
\* PushFront(x) that follows yields the traversal [x] with GetSize() 1.
C4_ClearLeavesEmptyList ==
    [][op'.name = "Clear" =>
          /\ allocated' = allocated \ Range(Chain(Cur, op'.l))
          /\ begin(Cur', op'.l) = end
          /\ IsEmpty(Cur', op'.l)
          /\ GetSize(Cur', op'.l) = 0
          /\ \A x \in Values :
                LET t == PushFront(Cur', op'.l, x, 1)
                IN  ~t.thrown =>
                      Traverse(t, op'.l) = <<x>> /\ GetSize(t, op'.l) = 1]_vars

\* C5: constructing a list from a sequence S, when no allocation fails,
\* yields GetSize() = Len(S) and a traversal equal to S.
C5_SeqConstructYieldsSequence ==
    \A l \in ListIds \ live, S \in Seqs, junk \in 0..(SizeModulus - 1) :
        LET t == SeqConstruct(Cur, l, S, Len(S), junk)
        IN  ~t.thrown =>
              /\ l \in t.live
              /\ GetSize(t, l) = Len(S)
              /\ Traverse(t, l) = S

\* a list has just been built from a sequence of two different elements
C5_Witness ==
    /\ op.name = "SeqConstruct" /\ op.ok
    /\ Len(Traverse(Cur, op.l)) >= 2
    /\ Traverse(Cur, op.l)[1] # Traverse(Cur, op.l)[2]
    /\ GetSize(Cur, op.l) = Len(Traverse(Cur, op.l))

\* C6: InsertAfter(pos, v) followed by EraseAfter(pos) restores GetSize()
\* and the traversal of the list, for every valid pos.
C6_InsertEraseRestores ==
    \A l \in live, v \in Values :
        \A pos \in Positions(Cur, l) :
            LET s1 == InsertAfter(Cur, l, pos, v, 1)
                s2 == EraseAfter(s1, l, pos)
            IN  ~s1.thrown =>
                  /\ Traverse(s2, l) = Traverse(Cur, l)
                  /\ GetSize(s2, l) = GetSize(Cur, l)

\* C7: PushFront(v) followed by PopFront() restores GetSize(), the front
\* element and the whole traversal, and releases the node the push allocated.
C7_PushPopRestores ==
    \A l \in live, v \in Values :
        LET s1 == PushFront(Cur, l, v, 1)
            s2 == PopFront(s1, l)
        IN  ~s1.thrown =>
              /\ Cardinality(s1.allocated) = Cardinality(allocated) + 1
              /\ GetSize(s2, l) = GetSize(Cur, l)
              /\ Traverse(s2, l) = Traverse(Cur, l)
              /\ Chain(s2, l) = Chain(Cur, l)
              /\ s2.allocated = allocated

\* a PushFront has just succeeded on a list that already had an element, so
\* the PopFront that follows has a prior front element to restore
C7_Witness ==
    /\ op.name = "PushFront" /\ op.ok
    /\ Len(Chain(Cur, op.l)) >= 2
    /\ Traverse(PopFront(Cur, op.l), op.l) = Tail(Traverse(Cur, op.l))

\* C8: once one list is a copy of the other, a mutation or the destruction
\* of either leaves the other's nodes, traversal and GetSize() unchanged.
C8_CopyThenMutateIndependent ==
    [][(copied /\ op'.name \in Mutators \cup {"Destroy"}) =>
          \A m \in live \ {op'.l} :
              /\ m \in live'
              /\ Chain(Cur', m) = Chain(Cur, m)
              /\ Traverse(Cur', m) = Traverse(Cur, m)
              /\ GetSize(Cur', m) = GetSize(Cur, m)]_vars

\* an element has been popped from one of two lists related by a copy while
\* the other still holds its elements
C8_Witness ==
    /\ copied
    /\ op.name = "PopFront"
    /\ \E m \in live \ {op.l} : Len(Chain(Cur, m)) >= 1

\* C9: swap (member or free) of lists l and o exchanges their chains and
\* sizes, allocates and releases nothing, is undone by a second swap, and
\* changes nothing when l = o.
C9_SwapExchanges ==
    [][op'.name \in {"swap", "swapFree"} =>
          /\ Chain(Cur', op'.l) = Chain(Cur, op'.o)
          /\ Chain(Cur', op'.o) = Chain(Cur, op'.l)
          /\ Traverse(Cur', op'.l) = Traverse(Cur, op'.o)
          /\ Traverse(Cur', op'.o) = Traverse(Cur, op'.l)
          /\ GetSize(Cur', op'.l) = GetSize(Cur, op'.o)
          /\ GetSize(Cur', op'.o) = GetSize(Cur, op'.l)
          /\ allocated' = allocated /\ value' = value /\ live' = live
          /\ LET t == swap(Cur', op'.l, op'.o)
             IN  t.next_node = next_node /\ t.size_ = size_
          /\ LET u == swapFree(Cur', op'.l, op'.o)
             IN  u.next_node = next_node /\ u.size_ = size_
          /\ (op'.l = op'.o => next_node' = next_node /\ size_' = size_)]_vars

\* two distinct lists with different elements and different sizes have just
\* been swapped
C9_Witness ==
    /\ op.name = "swap"
    /\ op.l # op.o
    /\ Traverse(Cur, op.l) # Traverse(Cur, op.o)
    /\ GetSize(Cur, op.l) # GetSize(Cur, op.o)

\* C10: a PushFront or InsertAfter whose allocation fails leaves every list
\* and the heap exactly as before the call.
C10_FailedInsertLeavesListUnchanged ==
    [][(op'.name \in {"PushFront", "InsertAfter"} /\ ~op'.ok) =>
          /\ value' = value
          /\ next_node' = next_node
          /\ allocated' = allocated
          /\ size_' = size_
          /\ live' = live]_vars

\* an allocation has just failed in PushFront on a list that holds elements
C10_Witness ==
    /\ op.name = "PushFront" /\ ~op.ok
    /\ Len(Chain(Cur, op.l)) >= 1
    /\ GetSize(Cur, op.l) >= 1

\* the store t holds exactly what the current state holds
Same(t) ==
    /\ t.value = value
    /\ t.next_node = next_node
    /\ t.allocated = allocated
    /\ t.size_ = size_
    /\ t.live = live
    /\ t.double_free = double_free

\* C11: when the allocation of the k-th node fails (avail = k - 1 nodes were
\* obtained before it), copy assignment, copy construction and construction
\* from a sequence leave every list and the heap as they were: the target and
\* the source are unchanged and the nodes built so far are released.
C11_FailedCopyLeavesAllUnchanged ==
    /\ \A rhs \in live : \A avail \in 0..Len(Chain(Cur, rhs)) :
          /\ \A l \in live :
                LET t == CopyAssign(Cur, l, rhs, avail)
                IN  /\ (l # rhs /\ avail < Len(Chain(Cur, rhs))) => t.thrown
                    /\ t.thrown => Same(t)
          /\ \A l \in ListIds \ live :
                LET t == CopyConstruct(Cur, l, rhs, avail)
                IN  /\ avail < Len(Chain(Cur, rhs)) => t.thrown
                    /\ t.thrown => Same(t)
          /\ LET b == CopyBuild(Cur, Tmp, rhs, avail)
             IN  b.thrown => allocated \subseteq b.allocated
    /\ \A l \in ListIds \ live, S \in Seqs, junk \in 0..(SizeModulus - 1) :
          \A avail \in 0..Len(S) :
              LET t == SeqConstruct(Cur, l, S, avail, junk)
              IN  /\ avail < Len(S) => t.thrown
                  /\ t.thrown => Same(t)

\* a copy assignment has just failed on a source of two elements, in a state
\* where the first node of the copy can be allocated before the failure
C11_Witness ==
    /\ op.name = "CopyAssign" /\ ~op.ok
    /\ Len(Chain(Cur, op.o)) >= 2
    /\ LET b == CopyBuild(Cur, Tmp, op.o, 1)
       IN  b.thrown /\ Cardinality(b.allocated) = Cardinality(allocated) + 1

\* the nodes owned by the live lists
Owned(s) == UNION {Range(Chain(s, l)) : l \in s.live}

\* C12: every allocated node is released exactly once: no delete hits a cell
\* twice, the allocated nodes are exactly those reachable from the live
\* lists (so none is left once every list is destroyed), a destructor
\* releases exactly the nodes of its list (none for an empty list), and copy
\* assignment releases every prior node of its target.
C12_NodesReleasedExactlyOnce ==
    /\ ~double_free
    /\ allocated = Owned(Cur)
    /\ (live = {} => allocated = {})
    /\ \A l \in live :
          LET t == Destroy(Cur, l)
          IN  /\ ~t.double_free
              /\ t.allocated = allocated \ Range(Chain(Cur, l))
              /\ (begin(Cur, l) = end => t.allocated = allocated)
    /\ \A l \in live, rhs \in live :
          LET t == CopyAssign(Cur, l, rhs, Len(Chain(Cur, rhs)))
          IN  (l # rhs /\ ~t.thrown) =>
                /\ ~t.double_free
                /\ Range(Chain(Cur, l)) \cap t.allocated = {}
                /\ t.allocated = Owned(t)

\* a copy assignment has just succeeded whose new nodes lie above a cell that
\* is free now: the cell held a prior node of the target, released by the call
C12_Witness ==
    /\ op.name = "CopyAssign" /\ op.ok /\ op.l # op.o
    /\ \E n \in FreeNodes(Cur), c \in Range(Chain(Cur, op.l)) : n < c

\* the chain of list l ends: following next_node from head_ reaches nullptr
\* without meeting a node twice
Acyclic(s, l) ==
    LET c == ChainFrom(s, begin(s, l), MaxNodes + 1)
    IN  Len(c) <= MaxNodes /\ Cardinality(Range(c)) = Len(c)

\* the lists L of store s have finite chains, no two of which share a node
Separate(s, L) ==
    \A l \in L :
        /\ Acyclic(s, l)
        /\ \A m \in L \ {l} : Range(Chain(s, l)) \cap Range(Chain(s, m)) = {}

\* C13: the chains of the live lists are acyclic and pairwise disjoint, in
\* every reachable state and at every stage inside the copy constructor,
\* operator= and the initializer_list constructor (after k nodes of the
\* temporary are built, after the swap, after the temporary is destroyed).
C13_ChainsAcyclicAndDisjoint ==
    /\ Separate(Cur, live)
    /\ \A rhs \in live : \A k \in 0..Len(Chain(Cur, rhs)) :
          /\ \A l \in ListIds \ live :
                LET b == CopyBuild(Cur, l, rhs, k)
                    w == swap(b, Tmp1, l)
                    t == CopyConstruct(Cur, l, rhs, k)
                IN  /\ Separate(b, b.live \cup {l})
                    /\ ~b.thrown => Separate(w, w.live \cup {l})
                    /\ Separate(t, t.live)
          /\ \A l \in live \ {rhs} :
                LET b == CopyBuild(Cur, Tmp, rhs, k)
                    c == CopyConstruct(Cur, Tmp, rhs, k)
                    w == swap(c, Tmp, l)
                    t == CopyAssign(Cur, l, rhs, k)
                IN  /\ Separate(b, b.live \cup {Tmp})
                    /\ ~b.thrown => Separate(swap(b, Tmp1, Tmp), b.live \cup {Tmp})
                    /\ Separate(c, c.live)
                    /\ ~c.thrown => Separate(w, w.live)
                    /\ Separate(t, t.live)
    /\ \A l \in ListIds \ live, S \in Seqs, junk \in {0, SizeModulus - 1} :
          \A k \in 0..Len(S) :
              LET b == SeqBuild(Cur, l, S, k, junk)
                  w == swap(b, l, Tmp1)
                  t == SeqConstruct(Cur, l, S, k, junk)
              IN  /\ Separate(b, b.live \cup {l})
                  /\ ~b.thrown => Separate(w, w.live \cup {l})
                  /\ Separate(t, t.live)

\* a copy assignment has just succeeded between two lists that both hold
\* elements now
C13_Witness ==
    /\ op.name = "CopyAssign" /\ op.ok /\ op.l # op.o
    /\ Len(Chain(Cur, op.l)) >= 1
    /\ Len(Chain(Cur, op.o)) >= 1
    /\ Range(Chain(Cur, op.l)) \cap Range(Chain(Cur, op.o)) = {}

\* sequence A precedes sequence B lexicographically: at the first position
\* where they differ A is smaller, or A is a proper prefix of B
LexLess(A, B) ==
    \E k \in 1..Len(B) :
        /\ k <= Len(A) + 1
        /\ \A i \in 1..(k - 1) : A[i] = B[i]
        /\ (k = Len(A) + 1 \/ A[k] < B[k])

\* C14: a == b iff the traversals have the same length and equal elements,
\* whatever the stored counts; a < b iff a's traversal is lexicographically
\* less; and !=, <=, >, >= are !(a == b), (a < b or a == b), (b < a),
\* (b < a or a == b).
C14_ComparisonsAreLexicographic ==
    op.name \in Comparisons =>
        LET a == op.l
            b == op.o
            A == Traverse(Cur, a)
            B == Traverse(Cur, b)
        IN  /\ op.name = "operator==" =>
                 (op.result <=>
                    (Len(A) = Len(B) /\ \A i \in 1..Len(A) : A[i] = B[i]))
            /\ op.name = "operator<" => (op.result <=> LexLess(A, B))
            /\ op.name = "operator!=" =>
                 (op.result <=> ~operator_eq(Cur, a, b))
            /\ op.name = "operator<=" =>
                 (op.result <=>
                    (operator_lt(Cur, a, b) \/ operator_eq(Cur, a, b)))
            /\ op.name = "operator>" => (op.result <=> operator_lt(Cur, b, a))
            /\ op.name = "operator>=" =>
                 (op.result <=>
                    (operator_lt(Cur, b, a) \/ operator_eq(Cur, a, b)))

\* a < b has just been evaluated to true for a two-element list a that is a
\* proper prefix of a three-element list b
C14_Witness ==
    /\ op.name = "operator<" /\ op.result
    /\ Len(Traverse(Cur, op.l)) = 2
    /\ Len(Traverse(Cur, op.o)) = 3
    /\ \A i \in 1..2 : Traverse(Cur, op.l)[i] = Traverse(Cur, op.o)[i]

\* index, in the chain of list l, of the node that follows position pos
IndexAfter(s, l, pos) ==
    IF pos = head_(l) THEN 1
    ELSE 1 + CHOOSE i \in 1..Len(Chain(s, l)) : Chain(s, l)[i] = pos

RemoveAt(seq, k) ==
    [i \in 1..(Len(seq) - 1) |-> IF i < k THEN seq[i] ELSE seq[i + 1]]

InsertAt(seq, k, e) ==
    [i \in 1..(Len(seq) + 1) |->
        IF i < k THEN seq[i] ELSE IF i = k THEN e ELSE seq[i - 1]]

\* C15: EraseAfter(pos), with an element after pos, removes exactly that
\* element and releases its node; the other elements keep their values and
\* order; the returned iterator references what now follows pos, or is end()
\* when the removed element was the last.
C15_EraseAfterRemovesOneElement ==
    \A l \in live :
      \A pos \in Positions(Cur, l) :
        next_node[pos] # NULL =>
          LET t == EraseAfter(Cur, l, pos)
              C == Chain(Cur, l)
              k == IndexAfter(Cur, l, pos)
          IN  /\ Chain(t, l) = RemoveAt(C, k)
              /\ Traverse(t, l) = RemoveAt(Traverse(Cur, l), k)
              /\ t.allocated = allocated \ {C[k]}
              /\ C[k] \in allocated
              /\ ~t.double_free
              /\ \A n \in t.allocated : t.value[n] = value[n]
              /\ \A o \in live \ {l} : Chain(t, o) = Chain(Cur, o)
              /\ t.ret = (IF k = Len(C) THEN end ELSE C[k + 1])
              /\ t.ret = t.next_node[pos]

\* EraseAfter has just removed one element of a three-element list
C15_Witness ==
    /\ op.name = "EraseAfter"
    /\ Len(Chain(Cur, op.l)) = 2
    /\ Cardinality(allocated) = 2

\* C16: InsertAfter(pos, value) places exactly one new element holding value
\* right after pos (first when pos is before_begin(), so on a list without
\* elements the traversal becomes [value] with size 1), keeps the other
\* elements' values and order, increases GetSize() by one and returns an
\* iterator to the new element, whose successor is what followed pos.
C16_InsertAfterPlacesOneElement ==
    \A l \in live, val \in Values :
      \A pos \in Positions(Cur, l) :
        NewCell(Cur) # NULL =>
          LET t == InsertAfter(Cur, l, pos, val, 1)
              C == Chain(Cur, l)
              k == IndexAfter(Cur, l, pos)
          IN  /\ ~t.thrown
              /\ t.ret \notin allocated
              /\ Chain(t, l) = InsertAt(C, k, t.ret)
              /\ Traverse(t, l) = InsertAt(Traverse(Cur, l), k, val)
              /\ t.allocated = allocated \cup {t.ret}
              /\ \A n \in allocated : t.value[n] = value[n]
              /\ \A o \in live \ {l} : Chain(t, o) = Chain(Cur, o)
              /\ GetSize(t, l) = Inc(GetSize(Cur, l))
              /\ t.value[t.ret] = val
              /\ t.next_node[t.ret] = next_node[pos]
              /\ C = <<>> => (Traverse(t, l) = <<val>> /\ GetSize(t, l) = 1)

\* C17: PushFront(value) allocates exactly one node, makes value the first
\* element ahead of the unchanged prior traversal and increments GetSize();
\* PopFront() on a list with elements removes and releases exactly the first
\* one, leaves the rest unchanged and decrements GetSize() by one; hence three
\* pushes onto a list without elements yield those three elements with size 3.
C17_PushFrontPopFront ==
    /\ \A l \in live, val \in Values :
         NewCell(Cur) # NULL =>
           LET t == PushFront(Cur, l, val, 1)
           IN  /\ ~t.thrown
               /\ Cardinality(t.allocated) = Cardinality(allocated) + 1
               /\ allocated \subseteq t.allocated
               /\ Traverse(t, l) = <<val>> \o Traverse(Cur, l)
               /\ Tail(Chain(t, l)) = Chain(Cur, l)
               /\ \A o \in live \ {l} : Chain(t, o) = Chain(Cur, o)
               /\ GetSize(t, l) = Inc(GetSize(Cur, l))
    /\ \A l \in live :
         begin(Cur, l) # end =>
           LET t == PopFront(Cur, l)
           IN  /\ Traverse(t, l) = Tail(Traverse(Cur, l))
               /\ Chain(t, l) = Tail(Chain(Cur, l))
               /\ t.allocated = allocated \ {begin(Cur, l)}
               /\ ~t.double_free
               /\ \A o \in live \ {l} : Chain(t, o) = Chain(Cur, o)
               /\ GetSize(Cur, l) > 0
               /\ GetSize(t, l) = GetSize(Cur, l) - 1
    /\ \A l \in live, v1 \in Values, v2 \in Values, v3 \in Values :
         (begin(Cur, l) = end /\ Cardinality(FreeNodes(Cur)) >= 3) =>
           LET t == PushFront(PushFront(PushFront(Cur, l, v3, 1), l, v2, 1),
                              l, v1, 1)
           IN  Traverse(t, l) = <<v1, v2, v3>> /\ GetSize(t, l) = 3

\* C18: for every live list IsEmpty() is true exactly when begin() == end().
C18_IsEmptyIffNoElements ==
    \A l \in live : IsEmpty(Cur, l) <=> (begin(Cur, l) = end)

\* C19: the stored count never wraps: PopFront never runs --size_ on a count
\* of 0, and Clear and the destructor, which run --size_ once per node, never
\* start with a count below the number of nodes.
C19_CounterNeverWraps ==
    [][/\ op'.name = "PopFront" => size_[op'.l] > 0
       /\ op'.name \in {"Clear", "Destroy"} =>
            size_[op'.l] >= Len(Chain(Cur, op'.l))]_vars

====
